---- MODULE Spec2Model ----
(***************************************************************************)
(* Model of the concurrent document ingestion and retrieval engine of      *)
(* kvntmr/vthacks13:                                                        *)
(*   - DocumentMemory (app/core/langchain/memory/document_memory.py): the  *)
(*     in-memory metadata cache kept next to the Chroma collection;        *)
(*   - the parallel processing workflow (app/core/langgraph/...): the      *)
(*     batch scheduler that parses files and stores them in a               *)
(*     DocumentMemory.                                                      *)
(* Text is abstracted to a number of chunks; timestamps are left out.      *)
(* Calls into the embedding store and the parsers either return or raise;  *)
(* the outcome is an input of the action that makes the call.              *)
(***************************************************************************)
EXTENDS Integers, Sequences, FiniteSets, TLC

(* ------------------------------ bounds -------------------------------- *)
\* documents that store_document may create in one run (uuid supply)
MaxDocs == 2
\* chunks the text splitter may cut one content into
MaxChunks == 2
\* ids in one call of delete_documents_by_ids
MaxIds == 2
\* files in one submitted batch
MaxFiles == 3
\* files in one submitted batch when the files are of every type
MaxRouteFiles == 2
\* store_document calls in flight at the same time
MaxCalls == 2

\* the number of restarts of the server in one behaviour
MaxRestarts == 1
\* chunks the text splitter cuts the text of a batch file into
TextChunks == 1

(* ------------------------- program constants -------------------------- *)
\* search_documents(limit: int = 5)
DefaultLimit == 5

NoneVal == "None"

\* the empty dictionary, which _clean_extracted_data returns when the
\* extractor's answer has none of the known fields
EmptyDict == "{}"

\* the truth value Python gives to property data in a condition: None and
\* the empty dictionary are false
Truthy(x) == x \notin {NoneVal, EmptyDict}

\* class DocumentType(str, Enum)
DocumentType ==
  {"pdf", "docx", "pptx", "xlsx", "csv", "txt", "rtf", "odt"}

EmptyMap == [x \in {} |-> NoneVal]

\* dict.get(key, default) on a chunk's metadata
DictGet(d, key, default) == IF key \in DOMAIN d THEN d[key] ELSE default

\* json.dumps / json.loads on the tag list: the encoded form is a string
\* value, kept apart from the list it encodes
JsonDumps(tags) == [json |-> tags]
IsStr(x) == DOMAIN x = {"json"}
JsonLoads(s) == s.json

(* ------------------------------ state --------------------------------- *)
VARIABLES
  collection,          \* vectorstore._collection: the chunks persisted in Chroma
  document_metadata,   \* DocumentMemory.document_metadata of the index that callers use
  metadata_keys,       \* list(document_metadata): the keys of that dictionary
                       \* in the order it lists them, which is the order in
                       \* which they were inserted
  nodes_metadata,      \* document_metadata of the scheduler's own DocumentMemory
  shared_metadata,     \* document_metadata of shared_document_memory, the
                       \* object the single-file workflow stores through
  nextId,              \* supply of fresh uuid4 document ids
  hist,                \* history: stored, the ids store_document of the
                       \* running index returned and no delete was asked
                       \* for since; deleteReturned, the ids delete_document
                       \* returned for; restarts, the restarts of the server
  ret,                 \* the operation last called on the index and what it
                       \* returned
  files,               \* ParallelProcessingState["files"]
  pstate,              \* the rest of ParallelProcessingState
  tasks,               \* ParallelProcessingState["tasks"]
  pc,                  \* position of process_files in its workflow graph
  report,              \* what process_files returned
  calls,               \* the store_document calls in flight: the position of
                       \* each one and its local variables
  loop                 \* the coroutine of the index that holds the event
                       \* loop, with its position and its local variables

ivars == <<collection, document_metadata, metadata_keys, nextId, hist, ret>>
cvars == <<calls, loop>>
bvars == <<nodes_metadata, shared_metadata, files, pstate, tasks, pc, report,
          calls, loop>>
vars == <<collection, document_metadata, metadata_keys, nodes_metadata,
          shared_metadata,
          nextId, hist, ret, files, pstate, tasks, pc, report, calls, loop>>

(* ======================= DocumentMemory ================================ *)

\* DocumentMetadata(...) as store_document builds it
DocumentMetadata(id, filename, document_type, file_size, source, prop, tags) ==
  [document_id |-> id, filename |-> filename, document_type |-> document_type,
   file_size |-> file_size, source |-> source,
   extracted_property_data |-> prop, tags |-> tags]

\* the Document objects store_document hands to add_documents: one per chunk
ChunkDocuments(id, nChunks, filename, document_type, source, prop, tags) ==
  { [document_id |-> id, filename |-> filename,
     document_type |-> document_type, chunk_index |-> i - 1,
     total_chunks |-> nChunks, source |-> source,
     tags |-> JsonDumps(tags),
     has_property_data |-> (prop # NoneVal)] : i \in 1..nChunks }

\* the distinct document ids carried by the chunks of the collection
UniqueDocIds(coll) == { c.document_id : c \in coll }

ChunksOf(coll, id) == { c \in coll : c.document_id = id }

\* the DocumentMetadata _rebuild_metadata_from_chromadb recreates from the
\* metadata of the probed chunk
RebuildRecord(id, chunk_metadata) ==
  [document_id |-> id,
   filename |-> DictGet(chunk_metadata, "filename", "Unknown"),
   document_type |-> DictGet(chunk_metadata, "document_type", "txt"),
   file_size |-> DictGet(chunk_metadata, "file_size", 0),
   source |-> DictGet(chunk_metadata, "source", "unknown"),
   extracted_property_data |-> NoneVal,
   tags |-> IF "tags" \in DOMAIN chunk_metadata /\ IsStr(chunk_metadata.tags)
            THEN JsonLoads(chunk_metadata.tags)
            ELSE DictGet(chunk_metadata, "tags", <<>>)]

\* the probes of a rebuild: similarity_search(k=1, filter=document_id) gives
\* one of the chunks of that id, whichever the adapter ranks first
Probes(coll, ids) ==
  { f \in [ids -> coll] : \A id \in ids : f[id].document_id = id }

\* the cache after the rebuild loop has handled the ids of done
RebuildCache(cache, done, probe) ==
  [id \in (DOMAIN cache) \cup done |->
     IF id \in done THEN RebuildRecord(id, probe[id]) ELSE cache[id]]

\* get_document_stats
SumSizes(cache) ==
  LET RECURSIVE Sum(_)
      Sum(S) == IF S = {} THEN 0
                ELSE LET x == CHOOSE y \in S : TRUE
                     IN cache[x].file_size + Sum(S \ {x})
  IN Sum(DOMAIN cache)

get_document_stats(cache) ==
  LET with == Cardinality({ id \in DOMAIN cache :
                            cache[id].extracted_property_data # NoneVal })
  IN [total_documents |-> Cardinality(DOMAIN cache),
      total_size_bytes |-> SumSizes(cache),
      documents_by_type |->
        [t \in { cache[id].document_type : id \in DOMAIN cache } |->
           Cardinality({ id \in DOMAIN cache : cache[id].document_type = t })],
      documents_with_property_data |-> with,
      documents_without_property_data |-> Cardinality(DOMAIN cache) - with]

\* collection.delete(where={"document_id": id})
CollectionDelete(coll, id) == coll \ ChunksOf(coll, id)

\* the filter search_documents builds from its arguments
SearchFilter(document_type, include_property_data) ==
  (IF document_type # NoneVal
   THEN "document_type" :> document_type ELSE EmptyMap)
  @@ (IF ~include_property_data
      THEN "has_property_data" :> FALSE ELSE EmptyMap)

\* Chroma's where clause: a chunk passes when it agrees on every given key
Passes(c, filter) == \A k \in DOMAIN filter : c[k] = filter[k]

\* the rankings the adapter may give for a query: it scores every chunk of
\* the collection against the query, and any order of the chunks may be the
\* order of their scores
RECURSIVE Rankings(_)
Rankings(coll) ==
  IF coll = {} THEN {<<>>}
  ELSE UNION { { <<c>> \o r : r \in Rankings(coll \ {c}) } : c \in coll }

Min(a, b) == IF a < b THEN a ELSE b

Range(s) == { s[i] : i \in DOMAIN s }

\* the keys of a dictionary after `dictionary[k] = v` for every k of ks in
\* turn: a key it has keeps its place, a new key goes to the end
KeysSet(keys, ks) ==
  keys \o SelectSeq(ks, LAMBDA k : k \notin Range(keys))

\* the keys of a dictionary after `del dictionary[k]` for every k of S
KeysDel(keys, S) == SelectSeq(keys, LAMBDA k : k \notin S)

FirstK(s, k) == SubSeq(s, 1, Min(k, Len(s)))

\* similarity_search_with_score(query, k, filter): the k best ranked chunks
\* among those that pass the filter
SimilaritySearch(ranking, k, filter) ==
  FirstK(SelectSeq(ranking, LAMBDA c : Passes(c, filter)), k)

\* FormatResults returning a result with unknown metadata for a chunk
\* whose document_id has no cache entry
FormatResults_KeepUncached(cache, results, include_property_data) ==
  [i \in 1..Len(results) |->
     LET known == results[i].document_id \in DOMAIN cache
     IN [document_id |-> results[i].document_id,
         filename |-> IF known THEN cache[results[i].document_id].filename
                      ELSE "Unknown",
         document_type |-> results[i].document_type,
         content |-> <<results[i].document_id, results[i].chunk_index>>,
         tags |-> IF known THEN cache[results[i].document_id].tags
                  ELSE <<>>,
         chunk_index |-> results[i].chunk_index,
         total_chunks |-> results[i].total_chunks,
         extracted_property_data |-> NoneVal]]

\* the loop of search_documents that re-attaches the cached metadata and
\* skips the chunks whose document_id has no cache entry
FormatResults(cache, results, include_property_data) ==
  LET kept == SelectSeq(results, LAMBDA c : c.document_id \in DOMAIN cache)
  IN [i \in 1..Len(kept) |->
       LET metadata == cache[kept[i].document_id]
       IN [document_id |-> kept[i].document_id,
           filename |-> metadata.filename,
           document_type |-> metadata.document_type,
           content |-> <<kept[i].document_id, kept[i].chunk_index>>,
           tags |-> metadata.tags,
           chunk_index |-> kept[i].chunk_index,
           total_chunks |-> kept[i].total_chunks,
           extracted_property_data |->
             IF include_property_data
                /\ Truthy(metadata.extracted_property_data)
             THEN metadata.extracted_property_data ELSE "absent"]]

\* the None that get_document_by_id returns in place of a document
NoDocument == [found |-> FALSE]

\* sorted(results, key=chunk_index) over the chunks of one document
RECURSIVE SortByIndex(_)
SortByIndex(S) ==
  IF S = {} THEN <<>>
  ELSE LET c == CHOOSE x \in S : \A y \in S : x.chunk_index <= y.chunk_index
       IN <<c>> \o SortByIndex(S \ {c})

\* what get_document_by_id returns from the chunks found for the id
GetDocument(coll, id) ==
  LET results == ChunksOf(coll, id)
      chunks == SortByIndex(results)
  IN IF results = {} THEN NoDocument
     ELSE [document_id |-> id,
           filename |-> DictGet(chunks[1], "filename", "Unknown"),
           document_type |-> DictGet(chunks[1], "document_type", "unknown"),
           content |-> [i \in 1..Len(chunks) |-> chunks[i].chunk_index],
           file_size |-> DictGet(chunks[1], "file_size", 0),
           source |-> DictGet(chunks[1], "source", "unknown"),
           tags |-> JsonLoads(chunks[1].tags),
           extracted_property_data |-> NoneVal]

(* ---------------- operations of the index that callers use ------------ *)

\* the event loop with no coroutine of the index on it and no request
\* waiting for it
NoCoroutine == [op |-> "none", request |-> "none"]

\* what callers store: a file name with its type, size, tags and the
\* structured property data extracted from it, if any
Profiles ==
  { [filename |-> "a.pdf", document_type |-> "pdf", file_size |-> 2,
     tags |-> <<"lease">>, prop |-> "data"],
    [filename |-> "b.csv", document_type |-> "csv", file_size |-> 1,
     tags |-> <<>>, prop |-> NoneVal],
    [filename |-> "c.txt", document_type |-> "txt", file_size |-> 1,
     tags |-> <<>>, prop |-> EmptyDict] }

\* store_document for a content of at most maxChunks chunks: the metadata
\* record is registered first, then the content is split and the chunks are
\* added; add_documents may raise
StoreDocumentCall(maxChunks) ==
  /\ nextId <= MaxDocs
  /\ \E f \in Profiles, nChunks \in 0..maxChunks, addOk \in BOOLEAN :
       /\ document_metadata' =
            document_metadata @@
            (nextId :> DocumentMetadata(nextId, f.filename, f.document_type,
                                        f.file_size, "upload", f.prop, f.tags))
       /\ collection' =
            IF addOk
            THEN collection \cup
                 ChunkDocuments(nextId, nChunks, f.filename, f.document_type,
                                "upload", f.prop, f.tags)
            ELSE collection
       /\ metadata_keys' = KeysSet(metadata_keys, <<nextId>>)
       /\ hist' = IF addOk
                  THEN [hist EXCEPT !.stored = @ \cup {nextId}] ELSE hist
       /\ ret' = [op |-> "store", ok |-> addOk, value |-> nextId]
  /\ nextId' = nextId + 1

\* store_document called on the index, nothing else running
StoreDocument == StoreDocumentCall(MaxChunks) /\ UNCHANGED bvars

\* search_documents; the similarity search may raise, and then there is
\* no ranking
SearchDocumentsCall ==
  /\ \E document_type \in {NoneVal}, limit \in {1, DefaultLimit},
        include \in BOOLEAN, ok \in BOOLEAN :
      \E ranking \in IF ok THEN Rankings(collection) ELSE {<<>>} :
       ret' = [op |-> "search", ok |-> ok,
               document_type |-> document_type, limit |-> limit,
               include_property_data |-> include,
               ranked |-> { c.document_id :
                            c \in Range(FirstK(ranking, limit)) },
               value |->
                 FormatResults(
                   document_metadata,
                   SimilaritySearch(ranking, limit,
                     SearchFilter(document_type, include)),
                   include)]
  /\ UNCHANGED <<collection, document_metadata, metadata_keys, nextId, hist>>

\* search_documents called on the index, nothing else running
SearchDocuments == SearchDocumentsCall /\ UNCHANGED bvars

\* get_document_by_id; the similarity search may raise
GetDocumentById ==
  /\ \E id \in 1..(nextId - 1), ok \in BOOLEAN :
       ret' = [op |-> "get", ok |-> ok, arg |-> id,
               value |-> IF ok THEN GetDocument(collection, id) ELSE NoDocument]
  /\ UNCHANGED <<collection, document_metadata, metadata_keys, nextId, hist>>
  /\ UNCHANGED bvars

\* the orders a Python set of ids may be iterated in
Orderings(S) ==
  { s \in [1..Cardinality(S) -> S] : Range(s) = S }

\* DeleteReturn reporting the outcome of the adapter's delete
DeleteReturn_AdapterOutcome(deleteOk) == deleteOk

\* what delete_document returns once the record is removed: True from the
\* try block and True from the except block
DeleteReturn(deleteOk) == TRUE

\* delete_document: False when the cache has no record; otherwise the
\* record is removed, the chunks are deleted unless collection.delete
\* raises, and True is returned either way
DeleteDocumentCall ==
  /\ \E id \in 1..(nextId - 1), deleteOk \in BOOLEAN :
       IF id \notin DOMAIN document_metadata
       THEN /\ ret' = [op |-> "delete", ok |-> TRUE, arg |-> id,
                       value |-> FALSE]
            /\ hist' = [hist EXCEPT !.stored = @ \ {id},
                                    !.deleteReturned = @ \cup {id}]
            /\ UNCHANGED <<collection, document_metadata, metadata_keys>>
       ELSE /\ document_metadata' =
                 [d \in (DOMAIN document_metadata) \ {id} |->
                    document_metadata[d]]
            /\ metadata_keys' = KeysDel(metadata_keys, {id})
            /\ collection' = IF deleteOk
                             THEN CollectionDelete(collection, id)
                             ELSE collection
            /\ hist' = [hist EXCEPT !.stored = @ \ {id},
                                    !.deleteReturned = @ \cup {id}]
            /\ ret' = [op |-> "delete", ok |-> TRUE, arg |-> id,
                       value |-> DeleteReturn(deleteOk)]
  /\ UNCHANGED nextId

\* delete_document called on the index, nothing else running
DeleteDocument == DeleteDocumentCall /\ UNCHANGED bvars

\* the adapter calls of one _rebuild_metadata_from_chromadb: collection.get()
\* returns or raises; the ids are probed in the order the set of ids is
\* iterated in, and the first probed of them return before one raises or the
\* loop ends
RebuildRuns(coll) ==
  { [get_ok |-> g, order |-> o, probed |-> n] :
      g \in BOOLEAN, o \in Orderings(UniqueDocIds(coll)),
      n \in 0..Cardinality(UniqueDocIds(coll)) }

\* no adapter call of the run raised
RanThrough(run) == run.get_ok /\ run.probed = Len(run.order)

\* the ids whose record the run has written when it ends, in the order in
\* which it wrote them
HandledInOrder(run) ==
  IF run.get_ok THEN SubSeq(run.order, 1, run.probed) ELSE <<>>

\* the ids whose record the run has written when it ends
Handled(run) == Range(HandledInOrder(run))

\* what _rebuild_metadata_from_chromadb may leave when it starts from
\* cache: the cache with the records of the ids handled, and whether the
\* run went through. An exception of the adapter ends the loop with the
\* ids handled so far and is only logged
RebuildOutcomes(coll, cache) ==
  UNION { { [cache |-> RebuildCache(cache, Handled(run), probe),
             written |-> HandledInOrder(run),
             ok |-> RanThrough(run)] :
              probe \in Probes(coll, Handled(run)) } :
          run \in RebuildRuns(coll) }

\* the caches among these outcomes
Rebuilt(coll, cache) == { o.cache : o \in RebuildOutcomes(coll, cache) }

\* _rebuild_metadata_from_chromadb of the index that callers use, on the
\* cache it finds
Rebuild(cache, keys, again) ==
  \E o \in RebuildOutcomes(collection, cache) :
    /\ document_metadata' = o.cache
    /\ metadata_keys' = KeysSet(keys, o.written)
    /\ ret' = [op |-> "rebuild", ok |-> o.ok,
               again |-> again, prev_ok |-> (again /\ ret.ok)]

\* a restart of the server: the process starts anew, the three
\* DocumentMemory objects of the modules are created again, and the
\* __init__ of each starts from an empty cache and rebuilds it from the
\* persisted collection with adapter calls of its own
Restart ==
  /\ hist.restarts < MaxRestarts
  /\ Rebuild(EmptyMap, <<>>, FALSE)
  /\ \E others \in Rebuilt(collection, EmptyMap)
                   \X Rebuilt(collection, EmptyMap) :
       /\ nodes_metadata' = others[1]
       /\ shared_metadata' = others[2]
  /\ hist' = [hist EXCEPT !.stored = {}, !.restarts = @ + 1]
  /\ files' = <<>>
  /\ pstate' = EmptyMap
  /\ tasks' = <<>>
  /\ pc' = "idle"
  /\ report' = EmptyMap
  /\ calls' = <<>>
  /\ loop' = NoCoroutine
  /\ UNCHANGED <<collection, nextId>>

\* the rebuild run once more right after a rebuild
RebuildAgain ==
  /\ ret.op = "rebuild"
  /\ ~ret.again
  /\ Rebuild(document_metadata, metadata_keys, TRUE)
  /\ UNCHANGED <<collection, nextId, hist>>
  /\ UNCHANGED bvars

\* get_document_stats of the index
GetDocumentStatsCall ==
  /\ ret' = [op |-> "stats", ok |-> TRUE,
             value |-> get_document_stats(document_metadata)]
  /\ UNCHANGED <<collection, document_metadata, metadata_keys, nextId, hist>>

\* get_document_stats called on the index, nothing else running
GetDocumentStats == GetDocumentStatsCall /\ UNCHANGED bvars

\* what the adapter does for one id of delete_documents_by_ids: the probe
\* and the delete return, or one of them raises
IdOutcomes == {"ok", "probe_raises", "delete_raises"}

\* the cache without the record of id, if it has one
CacheDelete(cache, id) == [d \in (DOMAIN cache) \ {id} |-> cache[d]]

\* FailedDocuments leaving out the ids the probe does not find
FailedDocuments_Silent(failed_documents, id, error) ==
  IF error = "Document not found" THEN failed_documents
  ELSE Append(failed_documents, [document_id |-> id, error |-> error])

\* failed_documents.append({"document_id": ..., "error": ...})
FailedDocuments(failed_documents, id, error) ==
  Append(failed_documents, [document_id |-> id, error |-> error])

\* the loop of delete_documents_by_ids over the ids, st carrying the
\* collection, the cache and the lists built so far
RECURSIVE DeleteByIdsLoop(_, _, _)
DeleteByIdsLoop(ids, outcomes, st) ==
  IF ids = <<>> THEN st
  ELSE LET id == Head(ids)
           o == Head(outcomes)
           failed(error) == FailedDocuments(st.failed_documents, id, error)
           next ==
             IF o = "probe_raises"
             THEN [st EXCEPT !.failed_documents = failed("similarity_search")]
             ELSE IF ChunksOf(st.collection, id) = {}
             THEN [st EXCEPT !.failed_documents = failed("Document not found")]
             ELSE IF o = "delete_raises"
             THEN [st EXCEPT
                     !.document_metadata = CacheDelete(@, id),
                     !.failed_documents = failed("collection.delete")]
             ELSE [st EXCEPT
                     !.document_metadata = CacheDelete(@, id),
                     !.collection = CollectionDelete(@, id),
                     !.deleted_documents = Append(@, id),
                     !.deleted_count = @ + 1]
       IN DeleteByIdsLoop(Tail(ids), Tail(outcomes), next)

\* delete_documents_by_ids for a list of ids whose length is in lens
DeleteDocumentsByIdsOf(lens) ==
  /\ \E n \in lens :
       \E ids \in [1..n -> 1..MaxDocs], outcomes \in [1..n -> IdOutcomes] :
         LET st == DeleteByIdsLoop(ids, outcomes,
                     [collection |-> collection,
                      document_metadata |-> document_metadata,
                      deleted_documents |-> <<>>,
                      failed_documents |-> <<>>,
                      deleted_count |-> 0])
         IN /\ collection' = st.collection
            /\ document_metadata' = st.document_metadata
            /\ metadata_keys' =
                 KeysDel(metadata_keys,
                         (DOMAIN document_metadata)
                           \ DOMAIN st.document_metadata)
            /\ hist' = [hist EXCEPT !.stored = @ \ Range(ids)]
            /\ ret' = [op |-> "delete_ids", ok |-> TRUE, arg |-> ids,
                       value |->
                         [success |-> (Len(st.failed_documents) = 0),
                          deleted_count |-> st.deleted_count,
                          deleted_documents |-> st.deleted_documents,
                          failed_documents |-> st.failed_documents]]
  /\ UNCHANGED nextId
  /\ UNCHANGED bvars

\* delete_documents_by_ids
DeleteDocumentsByIds == DeleteDocumentsByIdsOf(0..MaxIds)

\* the filters delete_documents_by_filter is called with; None, and the
\* empty list of tags, mean no filter. older_than_days is left at None
\* (upload times are not part of the state)
DeleteFilters ==
  { [filename |-> fn, document_type |-> dt, source |-> src, tags |-> tg] :
      fn \in {NoneVal, "a.pdf"}, dt \in {NoneVal, "csv"},
      src \in {NoneVal, "upload"}, tg \in {<<>>, <<"lease">>} }

\* should_delete of delete_documents_by_filter for one cache record
ShouldDelete(metadata, filter) ==
  /\ filter.filename # NoneVal => metadata.filename = filter.filename
  /\ filter.document_type # NoneVal
       => metadata.document_type = filter.document_type
  /\ filter.source # NoneVal => metadata.source = filter.source
  /\ filter.tags # <<>>
       => \E i \in DOMAIN filter.tags, j \in DOMAIN metadata.tags :
            filter.tags[i] = metadata.tags[j]

\* the ids of a set in the order document_metadata.items() lists them
InCacheOrder(keys, S) == SelectSeq(keys, LAMBDA k : k \in S)

\* delete_documents_by_filter: delete_document is called for every cache
\* record that passes the filters; it returns True also when the adapter's
\* delete raises, so errors stays empty, and the file name is read from the
\* cache after the record is gone
DeleteDocumentsByFilter ==
  /\ \E filter \in DeleteFilters :
       LET documents_to_delete ==
             { id \in DOMAIN document_metadata :
                 ShouldDelete(document_metadata[id], filter) }
       IN \E deleteOk \in SUBSET documents_to_delete :
            LET deleted == InCacheOrder(
                             metadata_keys,
                             { id \in documents_to_delete :
                                 DeleteReturn(id \in deleteOk) })
            IN /\ document_metadata' =
                    [d \in (DOMAIN document_metadata) \ documents_to_delete |->
                       document_metadata[d]]
               /\ metadata_keys' = KeysDel(metadata_keys, documents_to_delete)
               /\ collection' =
                    { c \in collection : c.document_id \notin deleteOk }
               /\ hist' = [hist EXCEPT
                             !.stored = @ \ documents_to_delete,
                             !.deleteReturned = @ \cup documents_to_delete]
               /\ ret' = [op |-> "delete_filter", ok |-> TRUE,
                          arg |-> filter,
                          value |->
                            [deleted_count |-> Len(deleted),
                             deleted_documents |->
                               [i \in DOMAIN deleted |->
                                  [document_id |-> deleted[i],
                                   filename |-> "Unknown"]],
                             errors |-> <<>>,
                             total_found |->
                               Cardinality(documents_to_delete)]]
  /\ UNCHANGED nextId
  /\ UNCHANGED bvars

\* clear_all_documents: the chunks are enumerated, the cache is cleared,
\* then all chunk ids are deleted in one call; collection.get or
\* collection.delete may raise
ClearAllDocuments ==
  /\ \E getOk \in BOOLEAN, deleteOk \in BOOLEAN :
       IF ~getOk
       THEN /\ ret' = [op |-> "clear", ok |-> FALSE,
                       value |-> [success |-> FALSE]]
            /\ UNCHANGED <<collection, document_metadata, metadata_keys, hist>>
       ELSE LET total_documents == Cardinality(collection)
            IN /\ document_metadata' = EmptyMap
               /\ metadata_keys' = <<>>
               /\ hist' = [hist EXCEPT !.stored = {}]
               /\ IF total_documents > 0 /\ ~deleteOk
                  THEN /\ collection' = collection
                       /\ ret' = [op |-> "clear", ok |-> FALSE,
                                  value |-> [success |-> FALSE]]
                  ELSE /\ collection' = {}
                       /\ ret' = [op |-> "clear", ok |-> TRUE,
                                  value |-> [success |-> TRUE,
                                             deleted_count |-> total_documents,
                                             deleted_size_bytes |-> 0]]
  /\ UNCHANGED nextId
  /\ UNCHANGED bvars

\* OrphanedIds taking every id of the store for an orphan
OrphanedIds_All(vector_doc_ids, metadata_doc_ids) == vector_doc_ids

\* orphaned_ids = vector_doc_ids - metadata_doc_ids
OrphanedIds(vector_doc_ids, metadata_doc_ids) ==
  vector_doc_ids \ metadata_doc_ids

\* cleanup_orphaned_documents: the ids of the store that the cache does not
\* know are deleted one by one; a delete that raises is logged and skipped;
\* collection.get may raise
CleanupOrphanedDocuments ==
  /\ \E getOk \in BOOLEAN :
       IF ~getOk
       THEN /\ ret' = [op |-> "cleanup", ok |-> FALSE,
                       value |-> [success |-> FALSE]]
            /\ UNCHANGED collection
       ELSE LET vector_doc_ids == UniqueDocIds(collection)
                metadata_doc_ids == DOMAIN document_metadata
                orphaned_ids == OrphanedIds(vector_doc_ids, metadata_doc_ids)
            IN \E deleted \in SUBSET orphaned_ids :
                 /\ collection' =
                      { c \in collection : c.document_id \notin deleted }
                 /\ ret' = [op |-> "cleanup", ok |-> TRUE,
                            value |-> [success |-> TRUE,
                                       cleaned_count |-> Cardinality(deleted),
                                       orphaned_ids |-> orphaned_ids]]
  /\ UNCHANGED <<document_metadata, metadata_keys, nextId, hist>>
  /\ UNCHANGED bvars

InitIndex ==
  /\ collection = {}
  /\ document_metadata = EmptyMap
  /\ metadata_keys = <<>>
  /\ nextId = 1
  /\ hist = [stored |-> {}, deleteReturned |-> {}, restarts |-> 0]
  /\ ret = [op |-> "init", ok |-> TRUE]

InitBatch ==
  /\ nodes_metadata = EmptyMap
  /\ shared_metadata = EmptyMap
  /\ files = <<>>
  /\ pstate = EmptyMap
  /\ tasks = <<>>
  /\ pc = "idle"
  /\ report = EmptyMap

InitCalls ==
  /\ calls = <<>>
  /\ loop = NoCoroutine

Init == InitIndex /\ InitBatch /\ InitCalls

\* the index in use: documents are stored, searched, fetched and deleted,
\* and the server may restart
Next ==
  \/ StoreDocument
  \/ SearchDocuments
  \/ GetDocumentById
  \/ DeleteDocument
  \/ Restart

Spec == Init /\ [][Next]_vars

\* the cache as a projection of the store: restarts, rebuilds, statistics
\* and the operations that read or change the cache alone or first
NextRebuild ==
  \/ StoreDocument
  \/ DeleteDocument
  \/ DeleteDocumentsByFilter
  \/ Restart
  \/ RebuildAgain
  \/ GetDocumentStats

SpecRebuild == Init /\ [][NextRebuild]_vars

\* the maintenance of the index: documents are stored, deleted in bulk
\* (which leaves orphans when the adapter fails), cleared and cleaned up
NextMaintain ==
  \/ StoreDocument
  \/ DeleteDocumentsByIds
  \/ DeleteDocumentsByFilter
  \/ ClearAllDocuments
  \/ CleanupOrphanedDocuments

SpecMaintain == Init /\ [][NextMaintain]_vars

(* ==================== parallel processing workflow ==================== *)

\* class AgentType(str, Enum), in the order AGENT_CONFIGS lists the pools
AgentOrder ==
  <<"pdf_agent", "docx_agent", "pptx_agent", "xlsx_agent", "csv_agent",
    "txt_agent", "rtf_agent", "odt_agent", "general_agent">>

AgentType == Range(AgentOrder)

\* AGENT_CONFIGS[agent_type]["supported_types"]
supported_types ==
  [a \in AgentType |->
     CASE a = "pdf_agent" -> {"pdf"}
       [] a = "docx_agent" -> {"docx", "doc"}
       [] a = "pptx_agent" -> {"pptx", "ppt"}
       [] a = "xlsx_agent" -> {"xlsx", "xls"}
       [] a = "csv_agent" -> {"csv"}
       [] a = "txt_agent" -> {"txt", "md"}
       [] a = "rtf_agent" -> {"rtf"}
       [] a = "odt_agent" -> {"odt", "ods", "odp"}
       [] a = "general_agent" -> {"*"}]

\* AGENT_CONFIGS[agent_type]["max_concurrent"]
max_concurrent ==
  [a \in AgentType |->
     CASE a = "pdf_agent" -> 3
       [] a = "docx_agent" -> 4
       [] a = "pptx_agent" -> 2
       [] a = "xlsx_agent" -> 3
       [] a = "csv_agent" -> 5
       [] a = "txt_agent" -> 6
       [] a = "rtf_agent" -> 3
       [] a = "odt_agent" -> 2
       [] a = "general_agent" -> 4]

\* FileRouter.supported_extensions
supported_extensions ==
  [e \in {".pptx", ".ppt", ".pdf", ".docx", ".doc", ".rtf", ".odt", ".xlsx",
          ".xls", ".csv", ".tsv", ".txt", ".text", ".log", ".md",
          ".markdown"} |->
     CASE e \in {".pptx", ".ppt"} -> "powerpoint"
       [] e = ".pdf" -> "pdf"
       [] e \in {".docx", ".doc"} -> "word"
       [] e = ".rtf" -> "rtf"
       [] e = ".odt" -> "odt"
       [] e \in {".xlsx", ".xls"} -> "excel"
       [] e \in {".csv", ".tsv"} -> "csv"
       [] e \in {".txt", ".text", ".log", ".md", ".markdown"} -> "text"]

\* FileRouter.get_file_type, on the lower-cased suffix of the file name
get_file_type(suffix) ==
  IF suffix \in DOMAIN supported_extensions
  THEN supported_extensions[suffix] ELSE "unsupported"

\* _determine_agent_type: the first pool of AGENT_CONFIGS that lists the
\* file type or "*"
determine_agent_type(file_type) ==
  LET matches == { i \in DOMAIN AgentOrder :
                     \/ "*" \in supported_types[AgentOrder[i]]
                     \/ file_type \in supported_types[AgentOrder[i]] }
  IN IF matches = {} THEN "general_agent"
     ELSE AgentOrder[CHOOSE i \in matches : \A j \in matches : i <= j]

\* state["available_agents"][agent_type]: the worker ids of a pool
available_agents(a) == [i \in 1..max_concurrent[a] |-> <<a, i - 1>>]

\* file_type_mapping.get(file_type_str, DocumentType.TXT) of
\* _process_single_file
file_type_mapping(file_type) ==
  CASE file_type = "pdf" -> "pdf"
    [] file_type = "word" -> "docx"
    [] file_type = "powerpoint" -> "pptx"
    [] file_type = "excel" -> "xlsx"
    [] file_type = "csv" -> "csv"
    [] file_type = "text" -> "txt"
    [] file_type = "rtf" -> "rtf"
    [] file_type = "odt" -> "odt"
    [] OTHER -> "txt"

\* document_id of a result that carries none
NoId == 0

\* task.result before the task has one
NoResult ==
  [none |-> TRUE, success |-> FALSE, document_id |-> NoId,
   error |-> NoneVal, extracted_property_data |-> NoneVal, raised |-> FALSE]

\* the files a batch is made of; a file dictionary may lack its "content"
FileNames ==
  { [filename |-> "a.csv", suffix |-> ".csv", size |-> 1],
    [filename |-> "d.odt", suffix |-> ".odt", size |-> 2] }

FileDicts ==
  { [filename |-> f.filename, suffix |-> f.suffix, size |-> f.size,
     has_content |-> b] : f \in FileNames, b \in BOOLEAN }

Batches == UNION { [1..n -> FileDicts] : n \in 0..MaxFiles }

\* FileProcessingTask(...) as initialize_parallel_processing_node creates it
FileProcessingTask(i, file_data) ==
  [task_id |-> i, filename |-> file_data.filename,
   file_type |-> get_file_type(file_data.suffix),
   file_size |-> file_data.size,
   agent_type |-> determine_agent_type(get_file_type(file_data.suffix)),
   status |-> "pending", assigned_agent |-> <<>>,
   started |-> FALSE, ended |-> FALSE, hung |-> FALSE,
   extracted |-> NoneVal,
   error_message |-> NoneVal, result |-> NoResult, returned |-> NoResult]

\* process_files: the initial state handed to the graph
ProcessFiles ==
  /\ pc = "idle"
  /\ \E fs \in Batches :
       /\ Cardinality({ i \in DOMAIN fs : ~fs[i].has_content }) <= 1
       /\ files' = fs
       /\ pstate' = [total_files |-> Len(fs)]
  /\ pc' = "initialize"
  /\ UNCHANGED <<shared_metadata, nodes_metadata, tasks, report>>
  /\ UNCHANGED ivars
  /\ UNCHANGED cvars

\* initialize_parallel_processing_node: one PENDING task per file; a file
\* dictionary without "content" raises KeyError, which is caught: the
\* status becomes FAILED and no task list is written
InitializeNode ==
  /\ pc = "initialize"
  /\ IF \A i \in DOMAIN files : files[i].has_content
     THEN /\ tasks' = [i \in DOMAIN files |-> FileProcessingTask(i, files[i])]
          /\ pstate' =
               [overall_status |-> "assigned", successful_uploads |-> 0,
                failed_uploads |-> 0, total_documents_stored |-> 0,
                errors |-> <<>>, completed_tasks |-> <<>>,
                failed_tasks |-> <<>>, has_tasks |-> TRUE] @@ pstate
     ELSE /\ tasks' = tasks
          /\ pstate' =
               [overall_status |-> "failed", successful_uploads |-> 0,
                failed_uploads |-> 0, total_documents_stored |-> 0,
                errors |-> <<"Initialization failed">>] @@ pstate
  /\ pc' = "assign_agents"
  /\ UNCHANGED <<shared_metadata, nodes_metadata, files, report>>
  /\ UNCHANGED ivars
  /\ UNCHANGED cvars

\* the index of a task within the tasks of its pool, in submission order
IndexInPool(ts, k) ==
  Cardinality({ j \in 1..(k - 1) : ts[j].agent_type = ts[k].agent_type })

\* AssignedAgent giving every task the first worker of its pool
AssignedAgent_First(ts, k) == available_agents(ts[k].agent_type)[1]

\* the round-robin assignment of assign_agents_node
AssignedAgent(ts, k) ==
  LET pool == available_agents(ts[k].agent_type)
  IN pool[(IndexInPool(ts, k) % Len(pool)) + 1]

\* assign_agents_node: every task gets a worker id of its pool and the
\* status PROCESSING
AssignAgentsNode ==
  /\ pc = "assign_agents"
  /\ IF pstate.overall_status # "assigned"
     THEN UNCHANGED <<tasks, pstate>>
     ELSE /\ tasks' = [k \in DOMAIN tasks |->
                         [tasks[k] EXCEPT
                            !.assigned_agent = AssignedAgent(tasks, k),
                            !.status = "processing"]]
          /\ pstate' = [pstate EXCEPT !.overall_status = "processing"]
  /\ pc' = "process_parallel"
  /\ UNCHANGED <<shared_metadata, nodes_metadata, files, report>>
  /\ UNCHANGED ivars
  /\ UNCHANGED cvars

\* the order in which process_files_parallel_node lists the coroutines:
\* pool by pool in order of first appearance, submission order within a pool
RECURSIVE ProcessingOrder(_, _)
ProcessingOrder(ts, S) ==
  IF S = {} THEN <<>>
  ELSE LET first(a) == CHOOSE i \in S :
                         /\ ts[i].agent_type = a
                         /\ \A j \in S : ts[j].agent_type = a => i <= j
           k == CHOOSE i \in S : \A j \in S :
                  \/ first(ts[i].agent_type) < first(ts[j].agent_type)
                  \/ /\ ts[i].agent_type = ts[j].agent_type
                     /\ i <= j
           rest == S \ { j \in S : ts[j].agent_type = ts[k].agent_type }
           pool == { j \in S : ts[j].agent_type = ts[k].agent_type }
           RECURSIVE Asc(_)
           Asc(P) == IF P = {} THEN <<>>
                     ELSE LET m == CHOOSE i \in P : \A j \in P : i <= j
                          IN <<m>> \o Asc(P \ {m})
       IN Asc(pool) \o ProcessingOrder(ts, rest)

\* process_files_parallel_node up to asyncio.gather: nothing to do unless
\* the status is PROCESSING
ProcessFilesParallelNode ==
  /\ pc = "process_parallel"
  /\ pc' = IF pstate.overall_status # "processing"
           THEN "finalize" ELSE "gather"
  /\ UNCHANGED <<shared_metadata, nodes_metadata, files, pstate, tasks, report>>
  /\ UNCHANGED ivars
  /\ UNCHANGED cvars

\* what the awaited parser and text extraction give for a task: text, no
\* text, or an exception
ParseOutcomes == {"text", "empty", "raises"}

\* what the property extractor returns: the cleaned data, which is the
\* empty dictionary when no field was recognised, or its error dictionary;
\* never None
ExtractOutcomes == {"data", EmptyDict, "error"}

\* the calls of _process_single_file that may never return: the parser and
\* the extractor, before store_document is entered, and add_documents
\* inside store_document
HangPoints == {"before_store", "add_documents"}

\* a call that never returns is a synchronous call inside the coroutine:
\* it holds the event loop, and gather starts no other coroutine
LoopBlocked == \E i \in DOMAIN tasks : tasks[i].hung

\* Raises with an extractor whose failure is an exception
Raises_ExtractorToo(parse, prop) ==
  parse = "raises" \/ (parse = "text" /\ prop = "error")

\* whether an awaited call raises into the except branch of
\* _process_single_file before store_document is reached: the parser may,
\* extract_property_data catches its own exceptions
Raises(parse, prop) == parse = "raises"

\* Pending dropping the remaining coroutines once one has returned a failure
Pending_FailFast ==
  LET order == ProcessingOrder(tasks, { i \in DOMAIN tasks :
                                         tasks[i].status = "processing" })
  IN IF \E i \in DOMAIN tasks : tasks[i].started /\ ~tasks[i].returned.success
     THEN <<>>
     ELSE SelectSeq(order, LAMBDA i : ~tasks[i].started)

\* the coroutines gather has still to run, in order
Pending ==
  LET order == ProcessingOrder(tasks, { i \in DOMAIN tasks :
                                         tasks[i].status = "processing" })
  IN SelectSeq(order, LAMBDA i : ~tasks[i].started)

\* _process_single_file of the next coroutine of gather; none of the calls
\* it awaits suspends, so it runs from start to return in one piece.
\* Every exception is caught and turned into a result dictionary.
RunTask ==
  /\ pc = "gather"
  /\ ~LoopBlocked
  /\ Pending # <<>>
  /\ LET k == Head(Pending)
         t == tasks[k]
     IN \E parse \in ParseOutcomes, prop \in ExtractOutcomes,
           addOk \in BOOLEAN :
          IF Raises(parse, prop)
          THEN /\ tasks' = [tasks EXCEPT ![k].started = TRUE,
                              ![k].extracted =
                                IF parse = "text" THEN prop ELSE NoneVal,
                              ![k].returned =
                                [NoResult EXCEPT !.none = FALSE,
                                   !.error = "Processing failed: parser"]]
               /\ UNCHANGED <<nodes_metadata, collection, nextId>>
          ELSE IF parse = "empty"
          THEN /\ tasks' = [tasks EXCEPT ![k].started = TRUE,
                              ![k].returned =
                                [NoResult EXCEPT !.none = FALSE,
                                   !.error = "No text content extracted from file"]]
               /\ UNCHANGED <<nodes_metadata, collection, nextId>>
          ELSE /\ nodes_metadata' =
                    nodes_metadata @@
                    (nextId :> DocumentMetadata(
                       nextId, t.filename, file_type_mapping(t.file_type),
                       t.file_size, "parallel_upload", prop,
                       <<"parallel_processed", t.agent_type>>))
               /\ collection' =
                    IF addOk
                    THEN collection \cup
                         ChunkDocuments(
                           nextId, TextChunks, t.filename,
                           file_type_mapping(t.file_type), "parallel_upload",
                           prop, <<"parallel_processed", t.agent_type>>)
                    ELSE collection
               /\ nextId' = nextId + 1
               /\ tasks' = [tasks EXCEPT ![k].started = TRUE,
                              ![k].extracted = prop,
                              ![k].returned =
                                IF addOk
                                THEN [NoResult EXCEPT !.none = FALSE,
                                        !.success = TRUE,
                                        !.document_id = nextId,
                                        !.extracted_property_data = prop]
                                ELSE [NoResult EXCEPT !.none = FALSE,
                                        !.error = "Processing failed: add_documents"]]
  /\ UNCHANGED <<files, pstate, pc, report>>
  /\ UNCHANGED <<document_metadata, metadata_keys, shared_metadata, hist, ret>>
  /\ UNCHANGED cvars

\* ResultIsException reading the success flag of the result dictionary
ResultIsException_ReadsSuccess(result) == ~result.success

\* isinstance(result, Exception) on a result of gather
ResultIsException(result) == result.raised

\* the loop of process_files_parallel_node over the results of gather: a
\* result that is an exception fails its task, any other result completes it
RECURSIVE CollectLoop(_, _, _)
CollectLoop(order, ts, st) ==
  IF order = <<>> THEN [tasks |-> ts, state |-> st]
  ELSE LET k == Head(order)
           result == ts[k].returned
       IN IF ResultIsException(result)
          THEN CollectLoop(Tail(order),
                 [ts EXCEPT ![k].status = "failed",
                            ![k].error_message = result.error,
                            ![k].ended = TRUE],
                 [st EXCEPT !.failed_tasks = Append(@, k),
                            !.failed_uploads = @ + 1,
                            !.errors = Append(@, "Task failed")])
          ELSE CollectLoop(Tail(order),
                 [ts EXCEPT ![k].status = "completed",
                            ![k].result = result,
                            ![k].ended = TRUE],
                 [st EXCEPT !.completed_tasks = Append(@, k),
                            !.successful_uploads = @ + 1,
                            !.total_documents_stored =
                              IF result.document_id # NoId
                              THEN @ + 1 ELSE @])

\* the overall status process_files_parallel_node derives from the lists
OverallStatus(st) ==
  IF st.failed_tasks # <<>> /\ st.completed_tasks # <<>> THEN "completed"
  ELSE IF st.failed_tasks # <<>> THEN "failed"
  ELSE "completed"

\* a coroutine of gather whose awaited call (parser, extractor or store)
\* never returns: no call carries a timeout, so the coroutine stays where
\* it is. When the call is add_documents, store_document has by then drawn
\* the document id and registered the metadata record
HangTask ==
  /\ pc = "gather"
  /\ ~LoopBlocked
  /\ Pending # <<>>
  /\ LET k == Head(Pending)
         t == tasks[k]
     IN \E at \in HangPoints, prop \in ExtractOutcomes :
          IF at = "before_store"
          THEN /\ tasks' = [tasks EXCEPT ![k].started = TRUE,
                                         ![k].hung = TRUE]
               /\ UNCHANGED <<nodes_metadata, nextId>>
          ELSE /\ nodes_metadata' =
                    nodes_metadata @@
                    (nextId :> DocumentMetadata(
                       nextId, t.filename, file_type_mapping(t.file_type),
                       t.file_size, "parallel_upload", prop,
                       <<"parallel_processed", t.agent_type>>))
               /\ nextId' = nextId + 1
               /\ tasks' = [tasks EXCEPT ![k].started = TRUE,
                                         ![k].hung = TRUE,
                                         ![k].extracted = prop]
  /\ UNCHANGED <<files, pstate, pc, report>>
  /\ UNCHANGED <<collection, document_metadata, metadata_keys, shared_metadata, hist, ret>>
  /\ UNCHANGED cvars

\* process_files_parallel_node after gather has returned, which it does
\* once every coroutine has
CollectResults ==
  /\ pc = "gather"
  /\ Pending = <<>>
  /\ \A i \in DOMAIN tasks : ~tasks[i].hung
  /\ LET order == ProcessingOrder(tasks, { i \in DOMAIN tasks :
                                            tasks[i].status = "processing" })
         done == CollectLoop(order, tasks, pstate)
     IN /\ tasks' = done.tasks
        /\ pstate' = [done.state EXCEPT
                        !.overall_status = OverallStatus(done.state)]
  /\ pc' = "finalize"
  /\ UNCHANGED <<shared_metadata, nodes_metadata, files, report>>
  /\ UNCHANGED ivars
  /\ UNCHANGED cvars

\* finalize_parallel_processing_node: the end time and the duration
FinalizeNode ==
  /\ pc = "finalize"
  /\ pstate' = IF pstate.overall_status \in {"completed", "failed"}
               THEN [processing_duration_seconds |-> 1] @@ pstate
               ELSE pstate
  /\ pc' = "format"
  /\ UNCHANGED <<shared_metadata, nodes_metadata, files, tasks, report>>
  /\ UNCHANGED ivars
  /\ UNCHANGED cvars

\* _format_results: the completed tasks that have a result are reported
\* with success True, the failed tasks with success False
format_results(st, ts) ==
  LET completed ==
        [i \in 1..Len(st.completed_tasks) |->
           LET task == ts[st.completed_tasks[i]]
           IN [filename |-> task.filename,
               document_id |-> task.result.document_id,
               error |-> NoneVal, success |-> TRUE]]
      failed ==
        [i \in 1..Len(st.failed_tasks) |->
           LET task == ts[st.failed_tasks[i]]
           IN [filename |-> task.filename,
               document_id |-> NoId,
               error |-> task.error_message, success |-> FALSE]]
  IN [success |-> (st.overall_status = "completed"),
      overall_status |-> st.overall_status,
      total_files |-> st.total_files,
      successful_uploads |-> st.successful_uploads,
      failed_uploads |-> st.failed_uploads,
      total_documents_stored |-> st.total_documents_stored,
      errors |-> st.errors,
      results |-> completed \o failed]

\* failure_report counting no file as failed
failure_report_NoneFailed(fs) ==
  [success |-> FALSE, error |-> "Parallel processing workflow failed",
   total_files |-> Len(fs), successful_uploads |-> 0,
   failed_uploads |-> 0, total_documents_stored |-> 0,
   results |-> <<>>]

\* the report of the except branch of process_files
failure_report(fs) ==
  [success |-> FALSE, error |-> "Parallel processing workflow failed",
   total_files |-> Len(fs), successful_uploads |-> 0,
   failed_uploads |-> Len(fs), total_documents_stored |-> 0,
   results |-> <<>>]

\* process_files after the graph has run: _format_results reads
\* state["completed_tasks"], which a failed initialization never wrote; the
\* KeyError lands in the except branch
ReturnReport ==
  /\ pc = "format"
  /\ report' = IF "completed_tasks" \in DOMAIN pstate
               THEN format_results(pstate, tasks)
               ELSE failure_report(files)
  /\ pc' = "returned"
  /\ UNCHANGED <<shared_metadata, nodes_metadata, files, pstate, tasks>>
  /\ UNCHANGED ivars
  /\ UNCHANGED cvars

\* a search through the index of the API once the batch has been reported
SearchAfterBatch ==
  /\ pc = "returned"
  /\ SearchDocuments

NextBatch ==
  \/ ProcessFiles
  \/ InitializeNode
  \/ AssignAgentsNode
  \/ ProcessFilesParallelNode
  \/ RunTask
  \/ CollectResults
  \/ FinalizeNode
  \/ ReturnReport
  \/ SearchAfterBatch

SpecBatch == Init /\ [][NextBatch]_vars

\* the batch when an awaited call may never return; the event loop runs
\* every coroutine and node that can take a step
NextHang ==
  \/ ProcessFiles
  \/ InitializeNode
  \/ AssignAgentsNode
  \/ ProcessFilesParallelNode
  \/ RunTask
  \/ HangTask
  \/ CollectResults
  \/ FinalizeNode
  \/ ReturnReport

SpecHang ==
  /\ Init /\ [][NextHang]_vars
  /\ WF_vars(InitializeNode)
  /\ WF_vars(AssignAgentsNode)
  /\ WF_vars(ProcessFilesParallelNode)
  /\ WF_vars(RunTask \/ HangTask)
  /\ WF_vars(CollectResults)
  /\ WF_vars(FinalizeNode)
  /\ WF_vars(ReturnReport)

\* the file extensions a submitted file may have: the supported ones and
\* one that FileRouter does not know
Suffixes == (DOMAIN supported_extensions) \cup {".xyz"}

\* batches of files of every type, each named f with its extension
RouteBatches ==
  UNION { [1..n -> { [filename |-> "f" \o e, suffix |-> e, size |-> 1,
                      has_content |-> TRUE] : e \in Suffixes }] :
          n \in 0..MaxRouteFiles }

\* process_files called with files of every type
ProcessFilesOfAnyType ==
  /\ pc = "idle"
  /\ \E fs \in RouteBatches :
       /\ files' = fs
       /\ pstate' = [total_files |-> Len(fs)]
  /\ pc' = "initialize"
  /\ UNCHANGED <<shared_metadata, nodes_metadata, tasks, report>>
  /\ UNCHANGED ivars
  /\ UNCHANGED cvars

\* the routing of a batch: the files become tasks and the tasks get a pool
\* and a worker id
NextRoute ==
  \/ ProcessFilesOfAnyType
  \/ InitializeNode
  \/ AssignAgentsNode

SpecRoute == Init /\ [][NextRoute]_vars

(* ========================= claims: the index ========================== *)

ResultIds(results) == { results[i].document_id : i \in DOMAIN results }

DefaultSearch ==
  /\ ret.op = "search"
  /\ ret.ok
  /\ ret.document_type = NoneVal
  /\ ret.limit = DefaultLimit
  /\ ~ret.include_property_data

\* what a get or a search that follows says about the ids of S: the get
\* finds nothing and the search returns none of them
Gone(S) ==
  \A id \in S :
    /\ (ret.op = "get" /\ ret.ok /\ ret.arg = id) => ret.value = NoDocument
    /\ (ret.op = "search" /\ ret.ok) => id \notin ResultIds(ret.value)

\* C5 as stated: once delete_document(id) has returned, whatever the
\* adapter's delete call did, get_document_by_id(id) finds nothing and no
\* search result carries id.
C5_AsStated == Gone(hist.deleteReturned)

\* C6 as stated: a default search that ranks a chunk of a stored document
\* within the limit returns that document, with or without property data.
C6_AsStated ==
  DefaultSearch =>
    \A id \in hist.stored : id \in ret.ranked => id \in ResultIds(ret.value)

\* C8 as stated: after the rebuild of a restart on a store holding chunks
\* of K distinct document ids, the cache holds exactly K records, one per
\* id, each with the filename and document type its chunks carry.
C8_AsStated ==
  (ret.op = "rebuild" /\ ~ret.again) =>
    /\ DOMAIN document_metadata = UniqueDocIds(collection)
    /\ \A id \in DOMAIN document_metadata :
         /\ document_metadata[id].document_id = id
         /\ \A c \in ChunksOf(collection, id) :
              /\ document_metadata[id].filename = c.filename
              /\ document_metadata[id].document_type = c.document_type

\* C9 as stated: a second rebuild right after a rebuild, with no change of
\* the store in between, leaves the cache as the first left it.
C9_AsStated ==
  [][(ret.op = "rebuild" /\ ret'.op = "rebuild" /\ ret'.again)
       => document_metadata' = document_metadata]_vars

\* C10 as stated: for the documents the index stored and whose chunks are
\* in the store, the record a restart rebuilds equals the record registered
\* at store time (filename, type, file_size, source, tags, presence of
\* structured data), and the statistics are the same before and after.
C10_AsStated ==
  [][(/\ ret'.op = "rebuild" /\ ~ret'.again /\ ret'.ok
      /\ hist.stored = DOMAIN document_metadata
      /\ hist.stored = UniqueDocIds(collection))
     => /\ \A id \in hist.stored :
             /\ id \in DOMAIN document_metadata'
             /\ document_metadata'[id].filename = document_metadata[id].filename
             /\ document_metadata'[id].document_type
                  = document_metadata[id].document_type
             /\ document_metadata'[id].file_size
                  = document_metadata[id].file_size
             /\ document_metadata'[id].source = document_metadata[id].source
             /\ document_metadata'[id].tags = document_metadata[id].tags
             /\ (document_metadata'[id].extracted_property_data = NoneVal)
                  = (document_metadata[id].extracted_property_data = NoneVal)
        /\ get_document_stats(document_metadata')
             = get_document_stats(document_metadata)]_vars

\* C21: delete_document(id) returns True whenever the cache had a record
\* of id, and the record is then gone, also when the adapter's delete
\* raised and the chunks are still stored; it returns False and changes
\* neither the cache nor the store when the cache had no record of id.
C21_DeleteReturnValue ==
  [][ret'.op = "delete" =>
       IF ret'.arg \in DOMAIN document_metadata
       THEN /\ ret'.value = TRUE
            /\ DOMAIN document_metadata'
                 = (DOMAIN document_metadata) \ {ret'.arg}
            /\ \A d \in DOMAIN document_metadata' :
                 document_metadata'[d] = document_metadata[d]
       ELSE /\ ret'.value = FALSE
            /\ document_metadata' = document_metadata
            /\ collection' = collection
     ]_vars

C21_Witness ==
  /\ ret.op = "delete"
  /\ ret.value = TRUE
  /\ ret.arg \notin DOMAIN document_metadata
  /\ ChunksOf(collection, ret.arg) # {}

\* C23 as stated: a metadata record is registered only once chunks are
\* persisted: after a store_document whose add call failed, or whose
\* content gave no chunks, the cache has no record of the new id.
C23_AsStated ==
  ret.op = "store" /\ ret.value \in DOMAIN document_metadata
    => ChunksOf(collection, ret.value) # {}

\* C24: a search that the adapter answers returns results although ranked
\* chunks carry a document_id without cache entry: every result refers to
\* a document_id that has a cache record, with the metadata of that record.
C24_SearchSkipsUncached ==
  ret.op = "search" /\ ret.ok =>
    \A i \in DOMAIN ret.value :
      /\ ret.value[i].document_id \in DOMAIN document_metadata
      /\ ret.value[i].filename
           = document_metadata[ret.value[i].document_id].filename

C24_Witness ==
  /\ ret.op = "search"
  /\ ret.ok
  /\ \E id \in ret.ranked :
       /\ id \notin DOMAIN document_metadata
       /\ \E c \in ChunksOf(collection, id) :
            Passes(c, SearchFilter(ret.document_type,
                                   ret.include_property_data))
  /\ ret.value # <<>>

(* ===================== claims: index maintenance ====================== *)

\* the ids whose chunks a step removed from the store
GoneIds == UniqueDocIds(collection) \ UniqueDocIds(collection')

\* C16 as stated: a cleanup_orphaned_documents call that returns success
\* deletes exactly the chunks of the ids the store has and the cache has
\* not, leaves the cache and the other chunks alone, returns the number of
\* orphan ids as cleaned_count, and leaves no id of the store without a
\* cache record.
C16_AsStated ==
  [][(ret'.op = "cleanup" /\ ret'.ok) =>
       LET orphans == UniqueDocIds(collection) \ DOMAIN document_metadata
       IN /\ collection' =
               { c \in collection : c.document_id \notin orphans }
          /\ document_metadata' = document_metadata
          /\ ret'.value.cleaned_count = Cardinality(GoneIds)
          /\ UniqueDocIds(collection') \subseteq DOMAIN document_metadata'
     ]_vars

\* C16, amended: a cleanup_orphaned_documents call that returns success
\* deletes all chunks of some of the orphan ids (those whose delete call
\* did not raise) and nothing else, leaves the cache unchanged, returns the
\* number of orphan ids it deleted as cleaned_count and all orphan ids as
\* orphaned_ids; only when cleaned_count equals the number of orphans does
\* every id of the store have a cache record afterwards. A call whose
\* enumeration of the store raises changes nothing.
C16_CleanupOrphans ==
  [][ret'.op = "cleanup" =>
       LET orphans == UniqueDocIds(collection) \ DOMAIN document_metadata
       IN /\ document_metadata' = document_metadata
          /\ ~ret'.ok => collection' = collection
          /\ ret'.ok =>
               /\ GoneIds \subseteq orphans
               /\ collection' =
                    { c \in collection : c.document_id \notin GoneIds }
               /\ ret'.value.cleaned_count = Cardinality(GoneIds)
               /\ ret'.value.orphaned_ids = orphans
               /\ (ret'.value.cleaned_count = Cardinality(orphans))
                    = (UniqueDocIds(collection')
                         \subseteq DOMAIN document_metadata')
     ]_vars

C16_Witness ==
  /\ ret.op = "cleanup"
  /\ ret.ok
  /\ ret.value.cleaned_count = 1
  /\ ret.value.orphaned_ids # {}
  /\ \E c \in collection : c.document_id \in DOMAIN document_metadata

\* C17 as stated: a clear_all_documents call that succeeds leaves the store
\* and the cache empty, and one whose adapter call fails has not cleared
\* the cache.
C17_AsStated ==
  [][ret'.op = "clear" =>
       /\ ret'.value.success =>
            (collection' = {} /\ document_metadata' = EmptyMap)
       /\ ~ret'.value.success => document_metadata' = document_metadata
     ]_vars

\* C18 as stated: the deleted_count of a successful clear_all_documents is
\* the number of distinct document ids the store held before the call.
C18_AsStated ==
  [][(ret'.op = "clear" /\ ret'.value.success) =>
       ret'.value.deleted_count = Cardinality(UniqueDocIds(collection))
     ]_vars

\* the ids delete_documents_by_ids reported as failed
FailedIds(v) ==
  { v.failed_documents[i].document_id : i \in DOMAIN v.failed_documents }

\* the number of positions of the list s that hold x
Occurrences(s, x) == Cardinality({ i \in DOMAIN s : s[i] = x })

\* C19 as stated: in the result of delete_documents_by_ids every input id
\* is in exactly one of deleted_documents and failed_documents,
\* deleted_count = len(deleted_documents), and success holds exactly when
\* failed_documents is empty.
C19_AsStated ==
  ret.op = "delete_ids" =>
    /\ \A id \in Range(ret.arg) :
         (id \in Range(ret.value.deleted_documents))
           # (id \in FailedIds(ret.value))
    /\ ret.value.deleted_count = Len(ret.value.deleted_documents)
    /\ ret.value.success = (ret.value.failed_documents = <<>>)

\* the elements of the list s at the positions of P, in the order of s
Pick(s, P) ==
  LET F[i \in 0..Len(s)] ==
        IF i = 0 THEN <<>>
        ELSE IF i \in P THEN Append(F[i - 1], s[i]) ELSE F[i - 1]
  IN F[Len(s)]

\* C19, amended: the result of delete_documents_by_ids has one entry per
\* position of the input list, in the order of the list: the id in
\* deleted_documents or an entry with the id in failed_documents. A
\* position is in deleted_documents only if its id has chunks in the store
\* and no earlier position of the list has deleted it; a failed position
\* carries 'Document not found' only if its id has no chunks in the store
\* when its turn comes, never stored or deleted by an earlier position, and
\* the text of the exception when the probe raised or, for an id that has
\* chunks, the delete raised. So an id is at most once in
\* deleted_documents, an id listed once is in exactly one of the two
\* lists, and an id listed more than once can be in both, in either order.
\* deleted_count = len(deleted_documents), and success holds exactly when
\* failed_documents is empty.
C19_PerIdResult ==
  [][ret'.op = "delete_ids" =>
       LET ids == ret'.arg
           v == ret'.value
           n == Len(ids)
       IN /\ \E D \in SUBSET (1..n) :
               LET failedAt == Pick([i \in 1..n |-> i], (1..n) \ D)
                   gone(i) ==
                     \/ ChunksOf(collection, ids[i]) = {}
                     \/ \E j \in D : j < i /\ ids[j] = ids[i]
               IN /\ v.deleted_documents = Pick(ids, D)
                  /\ Len(v.failed_documents) = Len(failedAt)
                  /\ \A i \in D : ~gone(i)
                  /\ \A k \in 1..Len(failedAt) :
                       /\ v.failed_documents[k].document_id = ids[failedAt[k]]
                       /\ v.failed_documents[k].error \in
                            IF gone(failedAt[k])
                            THEN {"Document not found", "similarity_search"}
                            ELSE {"similarity_search", "collection.delete"}
          /\ v.deleted_count = Len(v.deleted_documents)
          /\ v.success = (v.failed_documents = <<>>)]_vars

\* [d, d] where the delete of the first position raised and the second
\* position deleted d: d is first in failed_documents with the text of the
\* exception, then in deleted_documents
C19_Witness ==
  /\ ret.op = "delete_ids"
  /\ Len(ret.arg) = 2
  /\ ret.arg[1] = ret.arg[2]
  /\ ret.value.deleted_documents = <<ret.arg[1]>>
  /\ Len(ret.value.failed_documents) = 1
  /\ ret.value.failed_documents[1].error = "collection.delete"
  /\ ~ret.value.success

\* C20 as stated: for every id that delete_documents_by_ids reports in
\* failed_documents (of a list without repetitions), the call has modified
\* neither the cache record nor the stored chunks of that id.
C20_AsStated ==
  [][(/\ ret'.op = "delete_ids"
      /\ \A id \in Range(ret'.arg) : Occurrences(ret'.arg, id) = 1) =>
       \A id \in FailedIds(ret'.value) :
         /\ ChunksOf(collection', id) = ChunksOf(collection, id)
         /\ (id \in DOMAIN document_metadata')
              = (id \in DOMAIN document_metadata)
         /\ id \in DOMAIN document_metadata =>
              document_metadata'[id] = document_metadata[id]
     ]_vars

(* ========================= claims: the batch ========================== *)

\* C1 as stated: while a batch runs, the tasks of one pool that are in
\* PROCESSING at the same time are never more than the max_concurrent of
\* that pool.
C1_AsStated ==
  \A a \in AgentType :
    Cardinality({ i \in DOMAIN tasks :
                    tasks[i].agent_type = a /\ tasks[i].status = "processing" })
      <= max_concurrent[a]

ParserFailed(i) == tasks[i].returned.error = "Processing failed: parser"

\* C2 as stated: a batch of N files of which exactly one parser fails while
\* the others are parsed and stored is reported with
\* successful_uploads = N-1 and failed_uploads = 1.
C2_AsStated ==
  (/\ pc = "returned"
   /\ tasks # <<>>
   /\ Cardinality({ i \in DOMAIN tasks : ParserFailed(i) }) = 1
   /\ \A i \in DOMAIN tasks : ~ParserFailed(i) => tasks[i].returned.success)
  => /\ report.successful_uploads = Len(tasks) - 1
     /\ report.failed_uploads = 1

\* the entries of the report for the file name of task i
EntriesFor(i) ==
  { j \in DOMAIN report.results :
      report.results[j].filename = tasks[i].filename }

\* C3 as stated: a task without extractable text or whose processing failed
\* ends FAILED with an error string and is reported with success = false; a
\* task ends COMPLETED and is reported with success = true only if its text
\* was stored and it carries a document_id.
C3_AsStated ==
  pc = "returned" =>
    \A i \in DOMAIN tasks :
      /\ ~tasks[i].returned.success =>
           /\ tasks[i].status = "failed"
           /\ tasks[i].error_message # NoneVal
           /\ \E j \in EntriesFor(i) : ~report.results[j].success
      /\ tasks[i].status = "completed" =>
           /\ tasks[i].result.document_id # NoId
           /\ ChunksOf(collection, tasks[i].result.document_id) # {}

\* C4 as stated: the report of every call lists exactly one entry per
\* submitted file, also when the initialization fails.
C4_AsStated ==
  pc = "returned" =>
    /\ Len(report.results) = Len(files)
    /\ \A i \in DOMAIN files :
         Cardinality({ j \in DOMAIN report.results :
                         report.results[j].filename = files[i].filename })
           = Cardinality({ j \in DOMAIN files :
                             files[j].filename = files[i].filename })

\* the ids of the documents the batch ingested
Ingested ==
  { tasks[i].returned.document_id :
      i \in { j \in DOMAIN tasks : tasks[j].returned.success } }

\* C7 as stated: after the batch, a search through the index that callers
\* search returns a hit for every ingested document whose chunk the adapter
\* ranks within the limit, no hit for anything else, and no chunk in the
\* store belongs to a failed task.
C7_AsStated ==
  (pc = "returned" /\ ret.op = "search" /\ ret.ok) =>
    /\ \A id \in Ingested \cap ret.ranked : id \in ResultIds(ret.value)
    /\ ResultIds(ret.value) \subseteq Ingested
    /\ UniqueDocIds(collection) \subseteq Ingested

\* the batch has left process_files_parallel_node
AfterProcessing == pc \in {"finalize", "format", "returned"}

\* the initialization created the task list (and the assignment followed)
TasksCreated == "has_tasks" \in DOMAIN pstate

\* C11: a batch whose tasks were created and assigned ends with overall
\* status COMPLETED whatever its tasks returned, also when none of them
\* succeeded; overall status FAILED is reached only when the task creation
\* did not go through.
C11_BatchCompleted ==
  AfterProcessing =>
    /\ TasksCreated => pstate.overall_status = "completed"
    /\ pstate.overall_status = "failed" => ~TasksCreated

C11_Witness ==
  /\ pc = "returned"
  /\ Len(tasks) >= 2
  /\ \A i \in DOMAIN tasks : ~tasks[i].returned.success
  /\ pstate.overall_status = "completed"
  /\ report.overall_status = "completed"

\* C12 as stated: an empty file list ends with overall status FAILED and
\* success = false.
C12_AsStated ==
  (pc = "returned" /\ files = <<>>) =>
    /\ pstate.overall_status = "failed"
    /\ ~report.success

\* C13: when every awaited call returns or raises, every task created for
\* the batch has run to a result of its own and is COMPLETED or FAILED when
\* the report is returned, and every task whose own parse and store went
\* through has its document stored, whatever happened to the other tasks.
C13_NoFailFast ==
  (pc = "returned" /\ TasksCreated) =>
    \A i \in DOMAIN tasks :
      /\ tasks[i].status \in {"completed", "failed"}
      /\ tasks[i].started
      /\ ~tasks[i].returned.none
      /\ tasks[i].returned.success =>
           /\ ChunksOf(collection, tasks[i].returned.document_id) # {}
           /\ tasks[i].returned.document_id \in DOMAIN nodes_metadata

C13_Witness ==
  /\ pc = "returned"
  /\ Len(tasks) = 3
  /\ ~tasks[Head(ProcessingOrder(tasks, DOMAIN tasks))].returned.success
  /\ \E i \in DOMAIN tasks :
       /\ tasks[i].returned.success
       /\ ChunksOf(collection, tasks[i].returned.document_id) # {}
  /\ \E i \in DOMAIN tasks :
       tasks[i].returned.error = "No text content extracted from file"

\* the pool of the category of a file type, as the claim lists them
CategoryPool(file_type) ==
  CASE file_type = "pdf" -> "pdf_agent"
    [] file_type = "word" -> "docx_agent"
    [] file_type = "powerpoint" -> "pptx_agent"
    [] file_type = "excel" -> "xlsx_agent"
    [] file_type = "csv" -> "csv_agent"
    [] file_type = "text" -> "txt_agent"
    [] file_type = "rtf" -> "rtf_agent"
    [] file_type = "odt" -> "odt_agent"
    [] OTHER -> "general_agent"

\* C15 as stated: every file is routed to the pool of its own category
\* (PDF, Word, PowerPoint, Excel, CSV, plain text, RTF, ODT), and the
\* general pool receives only the files whose type matches no category.
C15_AsStated ==
  \A i \in DOMAIN tasks :
    /\ tasks[i].agent_type = CategoryPool(get_file_type(files[i].suffix))
    /\ tasks[i].agent_type = "general_agent"
         => get_file_type(files[i].suffix) = "unsupported"

\* the tasks whose awaited call never returned
Hung == { i \in DOMAIN tasks : tasks[i].hung }

\* C14 as stated: when the awaited call of a task never returns, the task
\* is eventually FAILED with a timeout error and process_files eventually
\* returns its report.
C14_AsStated ==
  (Hung # {}) ~>
    (/\ pc = "returned"
     /\ \A i \in Hung : /\ tasks[i].status = "failed"
                         /\ tasks[i].error_message # NoneVal)

(* ================= concurrent store_document calls ==================== *)

\* the files of the calls in flight: every call stores a file of its own
CallNames == <<"a.pdf", "b.csv", "c.txt", "d.docx">>
CallTypes == <<"pdf", "csv", "txt", "docx">>

CallFiles ==
  UNION { [1..n -> { [nChunks |-> k, prop |-> x] :
                       k \in 0..MaxChunks,
                       x \in {NoneVal, "data"} }] : n \in 1..MaxCalls }

\* the calls that have started and not yet returned or raised
InFlight == { c \in DOMAIN calls : calls[c].pc \in {"id", "registered"} }

\* CacheRegister replacing the cache by one that holds the new record only
CacheRegister_Replace(cache, id, metadata) == (id :> metadata)

\* self.document_metadata[document_id] = metadata
CacheRegister(cache, id, metadata) ==
  [d \in (DOMAIN cache) \cup {id} |-> IF d = id THEN metadata ELSE cache[d]]

\* callers start store_document for different files at the same time
StoreCalls ==
  /\ calls = <<>>
  /\ \E fs \in CallFiles :
       calls' = [c \in DOMAIN fs |->
                   [pc |-> "start", filename |-> CallNames[c],
                    document_type |-> CallTypes[c],
                    nChunks |-> fs[c].nChunks, prop |-> fs[c].prop,
                    document_id |-> 0, overlapped |-> FALSE]]
  /\ UNCHANGED <<ivars, shared_metadata, nodes_metadata, files, pstate, tasks,
                 pc, report, loop>>

\* document_id = str(uuid.uuid4())
StoreGenerateId(c) ==
  /\ calls[c].pc = "start"
  /\ calls' = [calls EXCEPT ![c].pc = "id", ![c].document_id = nextId,
                            ![c].overlapped = @ \/ InFlight # {}]
  /\ nextId' = nextId + 1
  /\ UNCHANGED <<collection, document_metadata, metadata_keys, hist, ret>>
  /\ UNCHANGED <<shared_metadata, nodes_metadata, files, pstate, tasks, pc,
                 report, loop>>

\* the metadata record is built and put into the cache
StoreRegister(c) ==
  /\ calls[c].pc = "id"
  /\ document_metadata' =
       CacheRegister(document_metadata, calls[c].document_id,
                     DocumentMetadata(calls[c].document_id, calls[c].filename,
                                      calls[c].document_type,
                                      calls[c].nChunks, "upload",
                                      calls[c].prop, <<>>))
  /\ metadata_keys' = KeysSet(metadata_keys, <<calls[c].document_id>>)
  /\ calls' = [calls EXCEPT ![c].pc = "registered",
                            ![c].overlapped = @ \/ InFlight \ {c} # {}]
  /\ UNCHANGED <<collection, nextId, hist, ret>>
  /\ UNCHANGED <<shared_metadata, nodes_metadata, files, pstate, tasks, pc,
                 report, loop>>

\* the content is split, one Document is made per chunk and the adapter's
\* add_documents is called; it may raise
StoreAddDocuments(c) ==
  /\ calls[c].pc = "registered"
  /\ \E addOk \in BOOLEAN :
       /\ collection' =
            IF addOk
            THEN collection \cup
                 ChunkDocuments(calls[c].document_id, calls[c].nChunks,
                                calls[c].filename, calls[c].document_type,
                                "upload", calls[c].prop, <<>>)
            ELSE collection
       /\ calls' = [calls EXCEPT
                      ![c].pc = IF addOk THEN "returned" ELSE "raised",
                      ![c].overlapped = @ \/ InFlight \ {c} # {}]
       /\ hist' = IF addOk
                  THEN [hist EXCEPT !.stored = @ \cup {calls[c].document_id}]
                  ELSE hist
       /\ ret' = [op |-> "store", ok |-> addOk,
                  value |-> calls[c].document_id]
  /\ UNCHANGED <<document_metadata, metadata_keys, nextId>>
  /\ UNCHANGED <<shared_metadata, nodes_metadata, files, pstate, tasks, pc,
                 report, loop>>

\* store_document calls for different files, their steps interleaved in
\* every order
NextConcurrent ==
  \/ StoreCalls
  \/ \E c \in DOMAIN calls : StoreGenerateId(c)
  \/ \E c \in DOMAIN calls : StoreRegister(c)
  \/ \E c \in DOMAIN calls : StoreAddDocuments(c)

SpecConcurrent == Init /\ [][NextConcurrent]_vars

(* ============ the coroutines of the index on the event loop =========== *)

\* the chunks of a document stored by the requests of this part
MaxLoopChunks == 1

\* AwaitPoints with collection.delete awaited, as a client of the store
\* with coroutine methods would have it
AwaitPoints_DeleteAwaited == {"cleared"}

\* the positions of clear_all_documents and of the rebuild at which the
\* coroutine is suspended and the event loop runs another one.
\* clear_all_documents is an async def whose statements are plain calls
\* (collection.get(), document_metadata.clear(), collection.delete()), none
\* of them an await, and _rebuild_metadata_from_chromadb is a plain
\* function that __init__ calls: there is no such position
AwaitPoints == {}

\* the event loop is idle: no coroutine of the index runs or is suspended
\* on it and no request waits for it, so the handler of a request that
\* arrives now starts at once
LoopFree(l) == l = NoCoroutine

\* ret while the operation last called has not returned
Running(op) == [op |-> "running", ok |-> TRUE, of |-> op]

\* the coroutine of operation op runs and stands at position p
Holds(op, p) == loop.op = op /\ loop.pc = p /\ loop.request # "served"

\* the loop once its coroutine has returned: a request that waited is next
Returned(l) == [op |-> "none", request |-> l.request]

\* clear_all_documents has emptied the cache and not yet deleted the chunks
HalfCleared ==
  /\ loop.op = "clear"
  /\ loop.pc = "cleared"
  /\ collection # {}

\* the rebuild has records for only some of the ids of the store
HalfRebuilt ==
  /\ loop.op = "rebuild"
  /\ DOMAIN document_metadata # UniqueDocIds(collection)

\* clear_all_documents up to collection.get(), which may raise
ClearGet ==
  /\ LoopFree(loop)
  /\ \E getOk \in BOOLEAN :
       IF getOk
       THEN /\ loop' = [op |-> "clear", pc |-> "got", all_docs |-> collection,
                       request |-> "none"]
            /\ ret' = Running("clear")
       ELSE /\ loop' = loop
            /\ ret' = [op |-> "clear", ok |-> FALSE,
                       value |-> [success |-> FALSE]]
  /\ UNCHANGED <<collection, document_metadata, metadata_keys, nextId, hist>>
  /\ UNCHANGED <<shared_metadata, nodes_metadata, files, pstate, tasks, pc,
                 report, calls>>

\* self.document_metadata.clear()
ClearMetadata ==
  /\ Holds("clear", "got")
  /\ document_metadata' = EmptyMap
  /\ metadata_keys' = <<>>
  /\ hist' = [hist EXCEPT !.stored = {}]
  /\ loop' = [loop EXCEPT !.pc = "cleared"]
  /\ UNCHANGED <<collection, nextId, ret>>
  /\ UNCHANGED <<shared_metadata, nodes_metadata, files, pstate, tasks, pc,
                 report, calls>>

\* collection.delete(ids=all_ids), which may raise, and the return
ClearDelete ==
  /\ Holds("clear", "cleared")
  /\ \E deleteOk \in BOOLEAN :
       LET total_documents == Cardinality(loop.all_docs)
       IN IF total_documents > 0 /\ ~deleteOk
          THEN /\ collection' = collection
               /\ ret' = [op |-> "clear", ok |-> FALSE,
                          value |-> [success |-> FALSE]]
          ELSE /\ collection' = collection \ loop.all_docs
               /\ ret' = [op |-> "clear", ok |-> TRUE,
                          value |-> [success |-> TRUE,
                                     deleted_count |-> total_documents,
                                     deleted_size_bytes |-> 0]]
  /\ loop' = Returned(loop)
  /\ UNCHANGED <<document_metadata, metadata_keys, nextId, hist>>
  /\ UNCHANGED <<shared_metadata, nodes_metadata, files, pstate, tasks, pc,
                 report, calls>>

\* a restart of the server: the three DocumentMemory objects are created
\* again. The objects of the scheduler and of the single-file workflow
\* rebuild their caches inside their __init__; for the index of the
\* router the cache starts empty and the rebuild begins
RestartInit ==
  /\ LoopFree(loop)
  /\ hist.restarts < MaxRestarts
  /\ document_metadata' = EmptyMap
  /\ metadata_keys' = <<>>
  /\ \E others \in Rebuilt(collection, EmptyMap)
                   \X Rebuilt(collection, EmptyMap) :
       /\ nodes_metadata' = others[1]
       /\ shared_metadata' = others[2]
  /\ hist' = [hist EXCEPT !.stored = {}, !.restarts = @ + 1]
  /\ loop' = [op |-> "rebuild", pc |-> "get", todo |-> {},
              request |-> "none"]
  /\ ret' = Running("rebuild")
  /\ UNCHANGED <<collection, nextId>>
  /\ UNCHANGED <<files, pstate, tasks, pc, report, calls>>

\* the rebuild reads the collection and collects the document ids; an
\* exception ends the rebuild
RebuildGet ==
  /\ Holds("rebuild", "get")
  /\ \E getOk \in BOOLEAN :
       IF getOk
       THEN /\ loop' = [loop EXCEPT !.pc = "probing",
                                    !.todo = UniqueDocIds(collection)]
            /\ ret' = ret
       ELSE /\ loop' = Returned(loop)
            /\ ret' = [op |-> "rebuild", ok |-> FALSE,
                       again |-> FALSE, prev_ok |-> FALSE]
  /\ UNCHANGED <<collection, document_metadata, metadata_keys, nextId, hist>>
  /\ UNCHANGED <<shared_metadata, nodes_metadata, files, pstate, tasks, pc,
                 report, calls>>

\* one turn of the rebuild's loop: the probe of one id and its record; an
\* exception ends the rebuild
RebuildProbe ==
  /\ Holds("rebuild", "probing")
  /\ \E id \in loop.todo, probeOk \in BOOLEAN :
       IF ~probeOk
       THEN /\ loop' = Returned(loop)
            /\ ret' = [op |-> "rebuild", ok |-> FALSE,
                       again |-> FALSE, prev_ok |-> FALSE]
            /\ UNCHANGED <<document_metadata, metadata_keys>>
       ELSE /\ loop' = [loop EXCEPT !.todo = @ \ {id}]
            /\ ret' = ret
            /\ IF ChunksOf(collection, id) = {}
               THEN UNCHANGED <<document_metadata, metadata_keys>>
               ELSE /\ \E c \in ChunksOf(collection, id) :
                         document_metadata' =
                           RebuildCache(document_metadata, {id}, (id :> c))
                    /\ metadata_keys' = KeysSet(metadata_keys, <<id>>)
  /\ UNCHANGED <<collection, nextId, hist>>
  /\ UNCHANGED <<shared_metadata, nodes_metadata, files, pstate, tasks, pc,
                 report, calls>>

\* the rebuild has gone through every id
RebuildReturn ==
  /\ Holds("rebuild", "probing")
  /\ loop.todo = {}
  /\ loop' = Returned(loop)
  /\ ret' = [op |-> "rebuild", ok |-> TRUE,
             again |-> FALSE, prev_ok |-> FALSE]
  /\ UNCHANGED <<collection, document_metadata, metadata_keys, nextId, hist>>
  /\ UNCHANGED <<shared_metadata, nodes_metadata, files, pstate, tasks, pc,
                 report, calls>>

\* the longest list of ids of a delete_selected_documents request
MaxSelected == 1

\* the files of the upload requests
UploadFiles == { f \in FileNames : f.suffix = ".csv" }

\* process_upload_parallel (and process_folder, when it takes the parallel
\* workflow) for a file with text: _process_single_file stores through the
\* DocumentMemory of the scheduler with whatever the extractor returned, so
\* the chunks go to the common store and the record to that object's cache
UploadThroughNodes ==
  /\ nextId <= MaxDocs
  /\ \E f \in UploadFiles, prop \in ExtractOutcomes, addOk \in BOOLEAN :
       LET file_type == get_file_type(f.suffix)
           agent == determine_agent_type(file_type)
       IN /\ nodes_metadata' =
               nodes_metadata @@
               (nextId :> DocumentMetadata(
                  nextId, f.filename, file_type_mapping(file_type), f.size,
                  "parallel_upload", prop, <<"parallel_processed", agent>>))
          /\ collection' =
               IF addOk
               THEN collection \cup
                    ChunkDocuments(nextId, TextChunks, f.filename,
                                   file_type_mapping(file_type),
                                   "parallel_upload", prop,
                                   <<"parallel_processed", agent>>)
               ELSE collection
  /\ nextId' = nextId + 1
  /\ UNCHANGED <<document_metadata, metadata_keys, shared_metadata, hist, ret>>
  /\ UNCHANGED <<files, pstate, tasks, pc, report>>
  /\ UNCHANGED cvars

\* DocumentType(file_type_str.lower()) of store_in_memory_node, with
\* DocumentType.TXT for a file type that is no value of the enumeration
StoreNodeDocumentType(file_type_str) ==
  IF file_type_str \in DocumentType THEN file_type_str ELSE "txt"

\* process_upload for a file with text: store_in_memory_node stores through
\* shared_document_memory with what the extractor returned; an exception of
\* add_documents fails the request after the id is drawn and the record
\* registered
ProcessUpload ==
  /\ nextId <= MaxDocs
  /\ \E f \in UploadFiles, prop \in ExtractOutcomes, addOk \in BOOLEAN :
       LET document_type == StoreNodeDocumentType(get_file_type(f.suffix))
       IN /\ shared_metadata' =
               shared_metadata @@
               (nextId :> DocumentMetadata(
                  nextId, f.filename, document_type, f.size,
                  "file_upload", prop, <<"uploaded", "processed">>))
          /\ collection' =
               IF addOk
               THEN collection \cup
                    ChunkDocuments(nextId, TextChunks, f.filename,
                                   document_type, "file_upload", prop,
                                   <<"uploaded", "processed">>)
               ELSE collection
  /\ nextId' = nextId + 1
  /\ UNCHANGED <<document_metadata, metadata_keys, nodes_metadata, hist, ret>>
  /\ UNCHANGED <<files, pstate, tasks, pc, report, calls, loop>>

\* file_type_mapping.get(file_type, DocumentType.TXT) of
\* _process_files_directly: the keys are extensions without the dot, so
\* only the file types that read like one are found
DirectDocumentType(file_type) ==
  IF file_type \in {"pdf", "docx", "doc", "pptx", "ppt", "xlsx", "xls",
                    "csv", "txt", "rtf", "odt"}
  THEN CASE file_type = "doc" -> "docx"
         [] file_type = "ppt" -> "pptx"
         [] file_type = "xls" -> "xlsx"
         [] OTHER -> file_type
  ELSE "txt"

\* process_folder without property extraction for a folder of more than
\* five files, n of them with text: _process_files_directly stores each of
\* these, in the order of the files, through a DocumentMemory made for the
\* call, whose cache goes with it; a file whose add_documents raises is
\* counted as failed
ProcessFilesDirectly ==
  /\ \E n \in 1..(MaxDocs + 1 - nextId) :
       \E fs \in [1..n -> UploadFiles], added \in SUBSET (1..n) :
         /\ collection' =
              collection \cup
              UNION { ChunkDocuments(
                        nextId + j - 1, TextChunks, fs[j].filename,
                        DirectDocumentType(get_file_type(fs[j].suffix)),
                        "folder_upload", NoneVal, <<>>) : j \in added }
         /\ nextId' = nextId + n
  /\ UNCHANGED <<document_metadata, metadata_keys, nodes_metadata, shared_metadata, hist,
                 ret>>
  /\ UNCHANGED <<files, pstate, tasks, pc, report, calls, loop>>

\* delete_selected_documents: an empty list of ids is answered with 400
\* before the index is called
DeleteSelectedDocuments == DeleteDocumentsByIdsOf(1..MaxSelected)

\* a request for the index reaches the server while clear_all_documents or
\* the rebuild has the cache half done: the loop is not idle, so the
\* handler of the request waits for it
RequestArrives ==
  /\ HalfCleared \/ HalfRebuilt
  /\ loop.request = "none"
  /\ loop' = [loop EXCEPT !.request = "waiting"]
  /\ UNCHANGED ivars
  /\ UNCHANGED <<shared_metadata, nodes_metadata, files, pstate, tasks, pc,
                 report, calls>>

\* the loop runs the handler of the waiting request: the coroutine that
\* had the loop has returned, or it is suspended at an await
Ready(l) ==
  /\ l.request = "waiting"
  /\ IF l.op = "none" THEN TRUE ELSE l.pc \in AwaitPoints

\* the handler of the waiting request runs and calls the index
ServeWaiting ==
  /\ Ready(loop)
  /\ loop' = [loop EXCEPT !.request = "served"]
  /\ UNCHANGED <<shared_metadata, nodes_metadata, files, pstate, tasks, pc,
                 report, calls>>

ServeStore == ServeWaiting /\ StoreDocumentCall(MaxLoopChunks)
ServeSearch == ServeWaiting /\ SearchDocumentsCall
ServeStats == ServeWaiting /\ GetDocumentStatsCall
ServeDelete == ServeWaiting /\ DeleteDocumentCall

\* the handler of the served request returns its response
RequestReturns ==
  /\ loop.request = "served"
  /\ loop' = [loop EXCEPT !.request = "none"]
  /\ UNCHANGED ivars
  /\ UNCHANGED <<shared_metadata, nodes_metadata, files, pstate, tasks, pc,
                 report, calls>>

\* the handlers of the requests that arrive while the loop is idle
LoopStore ==
  LoopFree(loop) /\ StoreDocumentCall(MaxLoopChunks) /\ UNCHANGED bvars
LoopSearch == LoopFree(loop) /\ SearchDocuments
LoopStats == LoopFree(loop) /\ GetDocumentStats
LoopDelete == LoopFree(loop) /\ DeleteDocument
LoopDeleteByIds == LoopFree(loop) /\ DeleteSelectedDocuments
LoopUpload == LoopFree(loop) /\ UploadThroughNodes
LoopProcessUpload == LoopFree(loop) /\ ProcessUpload
LoopProcessFolder == LoopFree(loop) /\ ProcessFilesDirectly

\* the coroutines that write the store or the cache of the router's index,
\* and the reads of that index, served by one event loop
NextLoop ==
  \/ ClearGet
  \/ ClearMetadata
  \/ ClearDelete
  \/ RestartInit
  \/ RebuildGet
  \/ RebuildProbe
  \/ RebuildReturn
  \/ RequestArrives
  \/ ServeStore
  \/ ServeSearch
  \/ ServeStats
  \/ ServeDelete
  \/ RequestReturns
  \/ LoopStore
  \/ LoopSearch
  \/ LoopStats
  \/ LoopDelete
  \/ LoopDeleteByIds
  \/ LoopUpload
  \/ LoopProcessUpload
  \/ LoopProcessFolder

SpecLoop == Init /\ [][NextLoop]_vars

(* ================ claims: whole-cache operations ====================== *)

\* a step in which store_document, search_documents, get_document_stats
\* or a delete of the index runs
Observes ==
  \/ ret' # ret /\ ret'.op \in {"store", "search", "stats", "delete",
                                  "delete_ids"}
  \/ loop.request = "waiting" /\ loop'.request = "served"

\* C28: no store_document, search_documents, get_document_stats or delete
\* runs, and so none observes the cache, while clear_all_documents has
\* emptied the cache with the chunks still in the store or while the
\* rebuild has records for only some ids of the store; this holds also for
\* the request that reached the server in such a state.
C28_WholeCacheExclusive ==
  [][Observes => ~HalfCleared /\ ~HalfRebuilt]_vars

\* a search reached the server while the rebuild had records for only some
\* of two ids, was served once the rebuild had returned, and found the
\* rebuilt records
C28_Witness ==
  /\ loop.op = "none"
  /\ loop.request = "served"
  /\ ret.op = "search"
  /\ ret.ok
  /\ Len(ret.value) >= 1
  /\ Cardinality(UniqueDocIds(collection)) >= 2
  /\ DOMAIN document_metadata = UniqueDocIds(collection)

(* ============== the index with an adapter that never fails ============ *)

\* store_document, add_documents returning; a content of white space only
\* is not empty and gives no chunk
StoreSucceeds ==
  /\ StoreDocument
  /\ ret'.ok

\* delete_document, collection.delete returning
DeleteSucceeds ==
  /\ DeleteDocument
  /\ ret'.value => ChunksOf(collection', ret'.arg) = {}

\* delete_documents_by_ids, every probe and every delete returning: an id
\* fails only because the probe finds no chunk
DeleteByIdsSucceeds ==
  /\ DeleteDocumentsByIds
  /\ \A i \in DOMAIN ret'.value.failed_documents :
       ret'.value.failed_documents[i].error = "Document not found"

\* clear_all_documents, collection.get and collection.delete returning
ClearSucceeds ==
  /\ ClearAllDocuments
  /\ ret'.ok

\* cleanup_orphaned_documents, collection.get and every delete returning
CleanupSucceeds ==
  /\ CleanupOrphanedDocuments
  /\ ret'.ok
  /\ ret'.value.cleaned_count = Cardinality(ret'.value.orphaned_ids)

\* one index, used from its construction on an empty store, whose adapter
\* calls all succeed
NextSound ==
  \/ StoreSucceeds
  \/ DeleteSucceeds
  \/ DeleteByIdsSucceeds
  \/ ClearSucceeds
  \/ CleanupSucceeds

SpecSound == Init /\ [][NextSound]_vars

\* C29 as stated: on one index whose adapter calls all succeed, after any
\* sequence of store_document (non-empty content), delete_document,
\* delete_documents_by_ids, clear_all_documents and
\* cleanup_orphaned_documents, the document ids of the cache are the
\* distinct document ids carried by the chunks of the store.
C29_AsStated ==
  DOMAIN document_metadata = UniqueDocIds(collection)

(* ================== claims: concurrent store calls ==================== *)

\* the calls that have got their document id
Identified == { c \in DOMAIN calls : calls[c].pc # "start" }

\* the calls that are over
Finished == { c \in DOMAIN calls : calls[c].pc \in {"returned", "raised"} }

\* C22: for every interleaving of concurrent store_document calls for
\* different files, the calls get pairwise distinct document ids, the cache
\* ends with exactly one metadata record per call, that call's own, and the
\* chunks persisted for the id a call returned are exactly that call's
\* chunks, with chunk_index 0..total_chunks-1.
C22_ConcurrentStores ==
  /\ \A c1, c2 \in Identified :
       c1 # c2 => calls[c1].document_id # calls[c2].document_id
  /\ Finished = DOMAIN calls /\ calls # <<>> =>
       /\ DOMAIN document_metadata = { calls[c].document_id : c \in DOMAIN calls }
       /\ Cardinality(DOMAIN document_metadata) = Len(calls)
       /\ \A c \in DOMAIN calls :
            document_metadata[calls[c].document_id].filename = calls[c].filename
  /\ \A c \in DOMAIN calls :
       calls[c].pc = "returned" =>
         LET mine == ChunksOf(collection, calls[c].document_id)
         IN /\ mine = ChunkDocuments(calls[c].document_id, calls[c].nChunks,
                                     calls[c].filename, calls[c].document_type,
                                     "upload", calls[c].prop, <<>>)
            /\ { ch.chunk_index : ch \in mine } = 0..(calls[c].nChunks - 1)
            /\ \A ch \in mine : /\ ch.total_chunks = calls[c].nChunks
                                /\ ch.filename = calls[c].filename
            /\ Cardinality(mine) = calls[c].nChunks

C22_Witness ==
  /\ Len(calls) >= 2
  /\ \A c \in DOMAIN calls : /\ calls[c].pc = "returned"
                             /\ calls[c].overlapped
                             /\ calls[c].nChunks >= 2

(* ===================== claims: tasks of a batch ======================= *)

\* C25: a task whose structured-data extractor failed, and whose calls all
\* returned, still went through store_document with its text: the record
\* of the document carries the extractor's error, and when the add call
\* succeeded the chunks are stored and the task's result is a success with
\* the document_id and the extractor's error; the task ends COMPLETED.
C25_ExtractorFailureStored ==
  \A i \in DOMAIN tasks :
    tasks[i].extracted = "error" /\ ~tasks[i].hung =>
      LET r == tasks[i].returned
      IN /\ ~r.none
         /\ \E id \in DOMAIN nodes_metadata :
              /\ nodes_metadata[id].filename = tasks[i].filename
              /\ nodes_metadata[id].extracted_property_data = "error"
         /\ r.success =>
              /\ r.document_id \in DOMAIN nodes_metadata
              /\ nodes_metadata[r.document_id].extracted_property_data = "error"
              /\ ChunksOf(collection, r.document_id) # {}
              /\ r.extracted_property_data = "error"
         /\ ~r.success => r.error = "Processing failed: add_documents"
         /\ tasks[i].ended =>
              /\ tasks[i].status = "completed"
              /\ tasks[i].result = r

C25_Witness ==
  \E i \in DOMAIN tasks :
    /\ tasks[i].extracted = "error"
    /\ tasks[i].status = "completed"
    /\ tasks[i].result.document_id # NoId
    /\ tasks[i].result.extracted_property_data = "error"

\* the steps the status of a task may take
StatusSteps ==
  { <<"pending", "assigned">>, <<"assigned", "processing">>,
    <<"processing", "completed">>, <<"processing", "failed">> }

\* C26 as stated: the status of a task changes only along PENDING,
\* ASSIGNED, PROCESSING, then COMPLETED or FAILED: a task is ASSIGNED before
\* it is PROCESSING, never moves backward and never leaves COMPLETED or
\* FAILED.
C26_AsStated ==
  [][\A k \in (DOMAIN tasks) \cap (DOMAIN tasks') :
       tasks'[k].status # tasks[k].status
         => <<tasks[k].status, tasks'[k].status>> \in StatusSteps]_vars

\* the tasks of pool a that were given slot n of the pool
OnSlot(a, n) ==
  { k \in DOMAIN tasks : tasks[k].assigned_agent = <<a, n>> }

\* C27: once assign_agents_node has run, the i-th task (from 0, in
\* submission order) of a pool with n worker slots has the worker id of
\* slot i mod n of its own pool, every task has one worker id, and the
\* numbers of tasks on two slots of one pool differ by at most one.
C27_RoundRobin ==
  pc \notin {"idle", "initialize", "assign_agents"} =>
    /\ \A k \in DOMAIN tasks :
         LET a == tasks[k].agent_type
             i == Cardinality({ j \in DOMAIN tasks :
                                  j < k /\ tasks[j].agent_type = a })
         IN /\ tasks[k].assigned_agent = <<a, i % max_concurrent[a]>>
            /\ tasks[k].assigned_agent \in Range(available_agents(a))
    /\ \A a \in AgentType :
         \A n1, n2 \in 0..(max_concurrent[a] - 1) :
           Cardinality(OnSlot(a, n1)) - Cardinality(OnSlot(a, n2)) <= 1

C27_Witness ==
  /\ pc = "process_parallel"
  /\ Cardinality(OnSlot("odt_agent", 0)) = 2
  /\ Cardinality(OnSlot("odt_agent", 1)) = 1

\* C30: in every report process_files returns, also the one of the except
\* branch after a failed initialization, successful_uploads plus
\* failed_uploads is total_files, which is the number of files handed in,
\* and total_documents_stored is at most successful_uploads.
C30_ReportArithmetic ==
  pc = "returned" =>
    /\ report.successful_uploads + report.failed_uploads = report.total_files
    /\ report.total_files = Len(files)
    /\ report.total_documents_stored <= report.successful_uploads

C30_Witness ==
  /\ pc = "returned"
  /\ report.total_files = 3
  /\ report.successful_uploads = 3
  /\ report.total_documents_stored = 1

====
